---------------------------- MODULE Spec2Model ----------------------------
(***************************************************************************)
(* A model of splread (src/splread.c): the reader of the GM1356 sound      *)
(* level meter.  main parses its options, finds and opens the HID device,  *)
(* sends one CONFIGURE report and waits for its acknowledgement, then      *)
(* polls the device with MEASURE reports until a signal clears `running`.  *)
(*                                                                         *)
(* Time is a discrete clock whose tick is 64 ns: every duration the        *)
(* program computes (n * 1000000 ns, 2^32 ns) is a whole number of ticks,  *)
(* so the program's arithmetic on nanoseconds is exact in ticks.           *)
(***************************************************************************)
EXTENDS Integers, Sequences, FiniteSets, TLC

(***************************************************************************)
(* Bounds of the model.                                                    *)
(***************************************************************************)
\* the polling loop is followed for this many MEASURE requests
MaxCycles == 3
\* at most this many HID devices of the meter's type are attached
MaxDevices == 3
\* splread_set_config, called on its own, is given ranges 0..MaxRangeArg
MaxRangeArg == 6
\* the command line holds at most this many options
MaxArgs == 1

(***************************************************************************)
(* Program constants.                                                      *)
(***************************************************************************)
GM1356_FAST_MODE == 64
GM1356_HOLD_MAX_MODE == 32
GM1356_MEASURE_DBC == 16
GM1356_FLAGS_RANGE_MASK == 15
GM1356_COMMAND_CAPTURE == 179
GM1356_COMMAND_CONFIGURE == 86
GM1356_RANGE_MAX == 4

A_OK == 0
A_E_NOTFOUND == 0 - 1
A_E_BADARGS == 0 - 2
A_E_INVAL == 0 - 3
A_E_EMPTY == 0 - 4
A_E_TIMEOUT == 0 - 5

FAILED(x) == 0 # x

\* the size of the command[] and report[] arrays, and of every HID report
REPORT_LEN == 8

gm1356_range_str == <<"30-130", "30-80", "50-100", "60-110", "80-130">>

\* the defaults of the configuration globals
DEFAULT_FAST_MODE == FALSE
DEFAULT_MEASURE_DBC == TRUE
DEFAULT_CONFIG_RANGE == 0
DEFAULT_INTERVAL_MS == 500

\* the acknowledgement budget of splread_set_config, in milliseconds
CONFIG_ACK_MS == 500

NULL == "NULL"

(***************************************************************************)
(* Time: ticks of 64 ns.                                                   *)
(***************************************************************************)
\* 1000000 ns
MsTicks == 1000000 \div 64
\* the range of an `unsigned` (2^32) counted in ns, in ticks
UnsignedTicks == 2^26
\* the conversion of a 64-bit nanosecond count to the `unsigned` parameter
ToUnsigned(ticks) == ticks % UnsignedTicks
\* timeout_ns/1000000ul, the milliseconds handed to hid_read_timeout
TimeoutMillis(tns) == tns \div MsTicks
\* the least time a call that blocks takes beyond its wait: one tick
CallOverhead == 1

(***************************************************************************)
(* Bit operations on unsigned values.                                      *)
(***************************************************************************)
RECURSIVE BitAnd(_, _)
BitAnd(a, b) ==
    IF a = 0 \/ b = 0 THEN 0
    ELSE (a % 2) * (b % 2) + 2 * BitAnd(a \div 2, b \div 2)

RECURSIVE BitOr(_, _)
BitOr(a, b) ==
    IF a = 0 THEN b
    ELSE IF b = 0 THEN a
    ELSE (IF (a % 2) + (b % 2) > 0 THEN 1 ELSE 0) + 2 * BitOr(a \div 2, b \div 2)

ToU8(x) == x % 256

ZeroReport == [i \in 1..REPORT_LEN |-> 0]

(***************************************************************************)
(* The environment: attached devices, and what the device answers.         *)
(***************************************************************************)
Serials == {"A", "B", "C"}
\* the enumerations hid_enumerate can return: the serials of the devices
AttachedLists == UNION {[1..n -> Serials] : n \in 0..MaxDevices}

\* the reports the device answers with
DeviceReports ==
    { <<31, 64, 82, 0, 0, 0, 0, 0, 0>>,
      <<196, 1, 23, 9, 9, 9, 9, 9, 9>> }

\* the lengths of the input reports of a device: hid_read_timeout returns
\* one report per call, cut to the length it was asked for
DeviceReportLens == {4, REPORT_LEN, REPORT_LEN + 1}

Min(a, b) == IF a < b THEN a ELSE b

\* the values hid_write returns: an error, a short write, the whole report
WriteResults == {0 - 1, 4, REPORT_LEN}

\* the poll intervals given with -i
IntervalArgs == {5000}
\* an option that takes a number and was not given
NoArg == 0 - 1
\* the serial numbers given with -S
SerialArgs == {"A"}
\* the arguments given with -r: a table entry or something else
RangeArgs == {gm1356_range_str[i] : i \in 1..Len(gm1356_range_str)} \cup {"bogus"}


(***************************************************************************)
(* The state of the program and of what it has done to the device.         *)
(***************************************************************************)
VARIABLES
    pc,            \* where main is
    running,       \* the global `running`
    stopWrites,    \* the requests written by the time running was cleared
    fast_mode,     \* the configuration globals ...
    measure_dbc,
    config_range,
    interval_ms,
    config_serial,
    opt_C,         \* whether -C was on the command line
    find_serial,   \* the serial handed to splread_find_device
    attached,      \* the enumeration of hid_enumerate, until it is freed
    devLen,        \* the length of the input reports of the opened device
    find_ret,      \* what splread_find_device returned
    find_calls,    \* what the last splread_find_device did with the enumeration
    dev,           \* the hid_device: "NULL", "open" or "closed"
    closes,        \* the number of hid_close calls
    ret,           \* main's ret
    status,        \* the exit status, "alive" while the process runs
    cfg_ret,       \* what splread_set_config returned
    tret,          \* main's tret
    buf,           \* command[] of splread_set_config, report[] of main
    read_bytes,    \* splread_read_resp's read_bytes
    elapsed,       \* get_time_ns() - start_time at the last clock reading
    timeout_ns,    \* splread_read_resp's timeout_ns, in ticks
    nreads,        \* hid_read_timeout calls of the current splread_read_resp
    written,       \* what the last hid_write returned
    lastReq,       \* the report handed to the last hid_write
    cfgWrites,     \* CONFIGURE reports handed to hid_write
    measWrites,    \* MEASURE reports handed to hid_write
    unanswered,    \* requests written whole whose answer may still come
    cfgAcked,      \* splread_read_resp returned A_OK for the CONFIGURE
    emitted,       \* measurements printed
    lastEmit,      \* the last measurement printed
    oob            \* a byte was stored past the end of the buffer

vars == <<pc, running, stopWrites, fast_mode, measure_dbc, config_range, interval_ms,
          config_serial, opt_C, find_serial, attached, devLen, find_ret, find_calls, dev,
          closes,          ret, status,
          cfg_ret, tret, buf, read_bytes, elapsed, timeout_ns, nreads, written,
          lastReq, cfgWrites, measWrites, unanswered, cfgAcked, emitted, lastEmit,
          oob>>

cfgVars == <<fast_mode, measure_dbc, config_range, interval_ms, config_serial, opt_C>>
findVars == <<find_serial, attached, devLen, find_ret, find_calls>>
readVars == <<buf, read_bytes, elapsed, timeout_ns, nreads, oob>>
wireVars == <<written, lastReq, cfgWrites, measWrites, unanswered>>
sentVars == <<written, lastReq, cfgWrites, measWrites>>
outVars == <<emitted, lastEmit>>

\* running has not been cleared
NoStop == [cfg |-> 0 - 1, meas |-> 0 - 1]

NoEmit == [deci_db |-> 0, measured_x100 |-> 0, mode |-> "", freqMode |-> "", range |-> ""]

\* the state main starts from, both signal handlers installed
Init ==
    /\ pc = "parse"
    /\ running = TRUE
    /\ stopWrites = NoStop
    /\ fast_mode = DEFAULT_FAST_MODE
    /\ measure_dbc = DEFAULT_MEASURE_DBC
    /\ config_range = DEFAULT_CONFIG_RANGE
    /\ interval_ms = DEFAULT_INTERVAL_MS
    /\ config_serial = NULL
    /\ opt_C = FALSE
    /\ find_serial = NULL
    /\ attached = <<>>
    /\ devLen = 0
    /\ find_ret = A_OK
    /\ find_calls = <<>>
    /\ dev = NULL
    /\ closes = 0
    /\ ret = "EXIT_FAILURE"
    /\ status = "alive"
    /\ cfg_ret = A_OK
    /\ tret = A_OK
    /\ buf = ZeroReport
    /\ read_bytes = 0
    /\ elapsed = 0
    /\ timeout_ns = 0
    /\ nreads = 0
    /\ written = 0
    /\ lastReq = <<>>
    /\ cfgWrites = 0
    /\ measWrites = 0
    /\ unanswered = 0
    /\ cfgAcked = FALSE
    /\ emitted = 0
    /\ lastEmit = NoEmit
    /\ oob = FALSE

(***************************************************************************)
(* _sigint_handler: SIGINT or SIGTERM arrives while the process runs.      *)
(***************************************************************************)
SigintHandler ==
    /\ status = "alive"
    /\ IF running = FALSE
       THEN /\ status' = "EXIT_FAILURE"
            /\ pc' = "exited"
            /\ UNCHANGED <<running, stopWrites>>
       ELSE /\ running' = FALSE
            /\ stopWrites' = [cfg |-> cfgWrites, meas |-> measWrites]
            /\ UNCHANGED <<status, pc>>
    /\ UNCHANGED <<cfgVars, findVars, dev, closes, ret, cfg_ret, tret, readVars,
                   wireVars, cfgAcked, outVars>>

(***************************************************************************)
(* _arg_find_range and _parse_args.                                        *)
(***************************************************************************)
\* the index of range_arg in gm1356_range_str, or -1 when it is not found
ArgFindRange(range_arg) ==
    LET hits == {i \in 1..Len(gm1356_range_str) : gm1356_range_str[i] = range_arg}
    IN  IF hits = {} THEN 0 - 1
        ELSE (CHOOSE i \in hits : \A j \in hits : i <= j) - 1

\* the command line: whether -h, -f and -C are given, and the arguments of
\* -i, -r and -S (NoArg or "none" when the option is not given)
CommandLines ==
    {cl \in [h : BOOLEAN, f : BOOLEAN, C : BOOLEAN,
             i : IntervalArgs \cup {NoArg},
             r : RangeArgs \cup {"none"},
             S : SerialArgs \cup {"none"}] :
        (IF cl.h THEN 1 ELSE 0) + (IF cl.f THEN 1 ELSE 0) + (IF cl.C THEN 1 ELSE 0)
        + (IF cl.i # NoArg THEN 1 ELSE 0) + (IF cl.r # "none" THEN 1 ELSE 0)
        + (IF cl.S # "none" THEN 1 ELSE 0) <= MaxArgs}

\* how the walk over the options ends: "h" (-h is met: help, exit with success),
\* "r" (an unknown range is met: exit with failure) or "no" (all are parsed)
ParseStops(cl) ==
    IF cl.h \/ (cl.r # "none" /\ ArgFindRange(cl.r) < 0)
    THEN (IF cl.h THEN {"h"} ELSE {})
         \cup (IF cl.r # "none" /\ ArgFindRange(cl.r) < 0 THEN {"r"} ELSE {})
    ELSE {"no"}

\* case 'C' of _parse_args
ParseC(given, dbc) == IF given THEN TRUE ELSE dbc

ParseArgs ==
    /\ pc = "parse"
    /\ status = "alive"
    /\ \E cl \in CommandLines :
       \E stop \in ParseStops(cl) :
          /\ fast_mode' = (IF cl.f THEN TRUE ELSE fast_mode)
          /\ measure_dbc' = ParseC(cl.C, measure_dbc)
          /\ opt_C' = cl.C
          /\ interval_ms' = (IF cl.i = NoArg THEN interval_ms ELSE cl.i)
          /\ config_range' = (IF cl.r # "none" /\ ArgFindRange(cl.r) >= 0
                               THEN ArgFindRange(cl.r) ELSE config_range)
          /\ config_serial' = (IF cl.S = "none" THEN config_serial ELSE cl.S)
          /\ status' = (CASE stop = "h" -> "EXIT_SUCCESS"
                          [] stop = "r" -> "EXIT_FAILURE"
                          [] OTHER -> "alive")
          /\ pc' = (IF stop = "no" THEN "find" ELSE "exited")
    /\ UNCHANGED <<running, stopWrites, findVars, dev, closes, ret, cfg_ret, tret, readVars,
                   wireVars, cfgAcked, outVars>>

(***************************************************************************)
(* splread_find_device.                                                    *)
(***************************************************************************)
\* the devices the loop counts
Counted(devs, serial) ==
    {i \in 1..Len(devs) : serial = NULL \/ devs[i] = serial}

\* a splread_find_device that has a code of its own for a failed hid_open
FindDeviceOwnOpenCode(devs, serial, openOk) ==
    LET nr_devs == Cardinality(Counted(devs, serial))
    IN  IF Len(devs) = 0 THEN [ret |-> A_E_NOTFOUND, dev |-> NULL]
        ELSE IF nr_devs > 1 THEN [ret |-> A_E_INVAL, dev |-> NULL]
        ELSE IF nr_devs = 0 THEN [ret |-> A_E_EMPTY, dev |-> NULL]
        ELSE IF ~openOk THEN [ret |-> A_E_BADARGS, dev |-> NULL]
        ELSE [ret |-> A_OK, dev |-> "open"]

\* a splread_find_device that returns success when hid_open has failed
FindDeviceMissesOpenFailure(devs, serial, openOk) ==
    LET nr_devs == Cardinality(Counted(devs, serial))
    IN  IF Len(devs) = 0 THEN [ret |-> A_E_NOTFOUND, dev |-> NULL]
        ELSE IF nr_devs > 1 THEN [ret |-> A_E_INVAL, dev |-> NULL]
        ELSE IF nr_devs = 0 THEN [ret |-> A_E_EMPTY, dev |-> NULL]
        ELSE IF ~openOk THEN [ret |-> A_OK, dev |-> NULL]
        ELSE [ret |-> A_OK, dev |-> "open"]

\* a splread_find_device that opens the first of several candidates
FindDeviceOpensFirst(devs, serial, openOk) ==
    LET nr_devs == Cardinality(Counted(devs, serial))
    IN  IF Len(devs) = 0 THEN [ret |-> A_E_NOTFOUND, dev |-> NULL]
        ELSE IF nr_devs = 0 THEN [ret |-> A_E_EMPTY, dev |-> NULL]
        ELSE IF ~openOk THEN [ret |-> A_E_NOTFOUND, dev |-> NULL]
        ELSE [ret |-> A_OK, dev |-> "open"]

\* ret and the handle stored in *pdev, given the enumeration and whether
\* hid_open succeeds
FindDevice(devs, serial, openOk) ==
    LET nr_devs == Cardinality(Counted(devs, serial))
    IN  IF Len(devs) = 0 THEN [ret |-> A_E_NOTFOUND, dev |-> NULL]
        ELSE IF nr_devs > 1 THEN [ret |-> A_E_INVAL, dev |-> NULL]
        ELSE IF nr_devs = 0 THEN [ret |-> A_E_EMPTY, dev |-> NULL]
        ELSE IF ~openOk THEN [ret |-> A_E_NOTFOUND, dev |-> NULL]
        ELSE [ret |-> A_OK, dev |-> "open"]

\* a splread_find_device that frees the enumeration only when it fails
FindCallsLeaksOnSuccess(devs, serial, openOk) ==
    LET nr_devs == Cardinality(Counted(devs, serial))
    IN  <<"hid_enumerate">>
        \o (IF Len(devs) = 0 THEN <<>>
            ELSE <<"walk">>
                 \o (IF nr_devs = 1 THEN <<"hid_open">> ELSE <<>>)
                 \o (IF nr_devs = 1 /\ openOk THEN <<>>
                     ELSE <<"hid_free_enumeration">>))

\* what splread_find_device does with the enumeration, in order: it gets it,
\* walks it (cur_dev), opens the device by the ids copied out of it and
\* frees it at done when hid_enumerate did not return NULL
FindCalls(devs, serial, openOk) ==
    LET nr_devs == Cardinality(Counted(devs, serial))
    IN  <<"hid_enumerate">>
        \o (IF Len(devs) = 0 THEN <<>>
            ELSE <<"walk">>
                 \o (IF nr_devs = 1 THEN <<"hid_open">> ELSE <<>>)
                 \o <<"hid_free_enumeration">>)

\* the serial main hands to splread_find_device
MainSerial == NULL

\* splread_find_device is called with serial, up to hid_enumerate
Enumerate(serial) ==
    /\ pc = "find"
    /\ status = "alive"
    /\ find_serial' = serial
    /\ \E devs \in AttachedLists : attached' = devs
    /\ pc' = "found"
    /\ UNCHANGED <<running, stopWrites, cfgVars, devLen, find_ret, find_calls, dev, closes, ret,
                   status, cfg_ret, tret, readVars, wireVars, cfgAcked, outVars>>

\* the call of main
MainEnumerate == Enumerate(MainSerial)

\* the rest of splread_find_device, and main on its return
MainFindDevice ==
    /\ pc = "found"
    /\ status = "alive"
    /\ \E openOk \in BOOLEAN, len \in DeviceReportLens :
          LET r == FindDevice(attached, find_serial, openOk)
          IN  /\ find_ret' = r.ret
              /\ dev' = r.dev
              /\ devLen' = (IF r.dev = NULL THEN 0 ELSE len)
              /\ pc' = (IF FAILED(r.ret) THEN "done" ELSE "config")
              /\ find_calls' = FindCalls(attached, find_serial, openOk)
    /\ attached' = <<>>
    /\ UNCHANGED <<running, stopWrites, cfgVars, find_serial, closes, ret, status, cfg_ret, tret,
                   readVars, wireVars, cfgAcked, outVars>>

(***************************************************************************)
(* splread_send_req and splread_read_resp.                                 *)
(***************************************************************************)
\* a splread_send_req that takes any write that is not an error for success
SendReqAcceptsShort(w) == IF w < 0 THEN A_E_INVAL ELSE A_OK

\* what splread_send_req returns when hid_write returned w
SendReq(w) == IF REPORT_LEN # w THEN A_E_INVAL ELSE A_OK

\* the length splread_read_resp asks hid_read_timeout for
ReadLength(response_len, rb) == response_len + 1 - rb

\* what one hid_read_timeout call can do: <<bytes returned, time taken>>.
\* It fails at once, returns 0 after waiting its whole timeout, or returns
\* a report, cut to length, at once, halfway or at the end of the wait.
ReadResults(length, millis) ==
    LET wait == millis * MsTicks
        nr == Min(length, devLen)
    IN  {<<0 - 1, CallOverhead>>, <<0, wait + CallOverhead>>}
        \cup (IF nr = 0 THEN {}
              ELSE {<<nr, d>> : d \in {CallOverhead, (wait \div 2) + CallOverhead,
                                        wait + CallOverhead}})

\* response[] after nr bytes of the report src were stored at &response[rb]
StoreBytes(response, rb, nr, src) ==
    [i \in 1..REPORT_LEN |->
        IF i > rb /\ i <= rb + nr THEN src[i - rb] ELSE response[i]]

\* a store past the end of response[] is undefined: the byte lands in memory
\* the program does not read again, or the process is killed for it
StoreOutcomes(rb, nr) ==
    IF nr >= 0 /\ rb + nr > REPORT_LEN THEN {"stored", "killed"} ELSE {"stored"}

\* a pass that takes the end of the wait for the arrival of the report
ReadPassDeadlineIsSuccess(rb, el, tns, nr, d) ==
    IF nr < 0 THEN [returns |-> TRUE, ret |-> A_E_INVAL]
    ELSE IF el + d > tns THEN [returns |-> TRUE, ret |-> A_OK]
    ELSE IF rb + nr = REPORT_LEN THEN [returns |-> TRUE, ret |-> A_OK]
    ELSE [returns |-> FALSE, ret |-> A_OK]

\* a pass that looks at the byte count before it looks at the clock
ReadPassBytesFirst(rb, el, tns, nr, d) ==
    IF nr < 0 THEN [returns |-> TRUE, ret |-> A_E_INVAL]
    ELSE IF rb + nr = REPORT_LEN THEN [returns |-> TRUE, ret |-> A_OK]
    ELSE IF el + d > tns THEN [returns |-> TRUE, ret |-> A_E_TIMEOUT]
    ELSE [returns |-> FALSE, ret |-> A_OK]

\* a pass that takes the first bytes it gets for the whole report
ReadPassAcceptsPartial(rb, el, tns, nr, d) ==
    IF nr < 0 THEN [returns |-> TRUE, ret |-> A_E_INVAL]
    ELSE IF el + d > tns THEN [returns |-> TRUE, ret |-> A_E_TIMEOUT]
    ELSE IF rb + nr > 0 THEN [returns |-> TRUE, ret |-> A_OK]
    ELSE [returns |-> FALSE, ret |-> A_OK]

\* one pass of the loop of splread_read_resp: whether it returns, and what
ReadPass(rb, el, tns, nr, d) ==
    IF nr < 0 THEN [returns |-> TRUE, ret |-> A_E_INVAL]
    ELSE IF el + d > tns THEN [returns |-> TRUE, ret |-> A_E_TIMEOUT]
    ELSE IF rb + nr = REPORT_LEN THEN [returns |-> TRUE, ret |-> A_OK]
    ELSE [returns |-> FALSE, ret |-> A_OK]

\* the state of splread_read_resp on entry
ReadEnter(tns, report) ==
    /\ buf' = report
    /\ read_bytes' = 0
    /\ elapsed' = 0
    /\ nreads' = 0
    /\ timeout_ns' = tns

\* a request is in flight once hid_write has taken the whole report
InFlight(w) == IF w = REPORT_LEN THEN 1 ELSE 0

\* the device answers the requests in the order it gets them, late or never
\* ("HID messages can and will get lost in transit"): when a receive times
\* out without a byte, the answer is either lost or still to come
Losses(rb, nr, p) ==
    IF rb = 0 /\ nr = 0 /\ p.returns /\ p.ret = A_E_TIMEOUT THEN BOOLEAN ELSE {FALSE}

\* the locals of splread_read_resp after a pass that read nr bytes of src in time d
ReadLocals(nr, d, src, lost) ==
    /\ nreads' = nreads + 1
    /\ unanswered' = (IF read_bytes = 0 /\ (nr > 0 \/ lost)
                       THEN unanswered - 1 ELSE unanswered)
    /\ read_bytes' = (IF nr < 0 THEN read_bytes ELSE read_bytes + nr)
    /\ elapsed' = (IF nr < 0 THEN elapsed ELSE elapsed + d)
    /\ buf' = (IF nr < 0 THEN buf ELSE StoreBytes(buf, read_bytes, nr, src))
    /\ oob' = (oob \/ (nr >= 0 /\ read_bytes + nr > REPORT_LEN))
    /\ UNCHANGED timeout_ns

\* the locals of a call are gone once its caller has its result
ReadLeave ==
    /\ read_bytes' = 0
    /\ elapsed' = 0
    /\ nreads' = 0
    /\ timeout_ns' = 0
    /\ UNCHANGED oob

(***************************************************************************)
(* splread_set_config.                                                     *)
(***************************************************************************)
\* a command[] whose fast flag is the hold-max flag
ConfigCommandHoldForFast(range, fast, dbc) ==
    LET c1 == ToU8(BitOr(0, range))
        c2 == IF fast = TRUE THEN BitOr(c1, GM1356_HOLD_MAX_MODE) ELSE c1
        c3 == IF dbc = TRUE THEN BitOr(c2, GM1356_MEASURE_DBC) ELSE c2
    IN  [i \in 1..REPORT_LEN |->
            IF i = 1 THEN GM1356_COMMAND_CONFIGURE ELSE IF i = 2 THEN c3 ELSE 0]

\* a command[] whose flags are one bit lower than the device's
ConfigCommandShiftedFlags(range, fast, dbc) ==
    LET c1 == ToU8(BitOr(0, range))
        c2 == IF fast = TRUE THEN BitOr(c1, GM1356_FAST_MODE \div 2) ELSE c1
        c3 == IF dbc = TRUE THEN BitOr(c2, GM1356_MEASURE_DBC \div 2) ELSE c2
    IN  [i \in 1..REPORT_LEN |->
            IF i = 1 THEN GM1356_COMMAND_CONFIGURE ELSE IF i = 2 THEN c3 ELSE 0]

\* a command[] whose range is assigned after the flags, not or-ed in
ConfigCommandRangeLast(range, fast, dbc) ==
    [i \in 1..REPORT_LEN |->
        IF i = 1 THEN GM1356_COMMAND_CONFIGURE ELSE IF i = 2 THEN ToU8(range) ELSE 0]

\* command[] as built from the arguments
ConfigCommand(range, fast, dbc) ==
    LET c1 == ToU8(BitOr(0, range))
        c2 == IF fast = TRUE THEN BitOr(c1, GM1356_FAST_MODE) ELSE c1
        c3 == IF dbc = TRUE THEN BitOr(c2, GM1356_MEASURE_DBC) ELSE c2
    IN  [i \in 1..REPORT_LEN |->
            IF i = 1 THEN GM1356_COMMAND_CONFIGURE ELSE IF i = 2 THEN c3 ELSE 0]

\* an argument check that lets one more range through
ConfigArgsOkOffByOne(range) == range <= GM1356_RANGE_MAX + 1

\* ASSERT_ARG(range <= 0x4)
ConfigArgsOk(range) == range <= GM1356_RANGE_MAX

\* a splread_set_config that takes only a response that starts with 0xc4
ConfigAckRetChecksMarker(rret, command) ==
    IF FAILED(rret) \/ command[1] # 196 THEN A_E_INVAL ELSE A_OK

\* what splread_set_config returns when splread_read_resp returned rret with
\* the response in command[]
ConfigAckRet(rret, command) == IF FAILED(rret) THEN A_E_INVAL ELSE A_OK

\* the arguments are checked, the command is built and sent
SetConfigSend ==
    /\ pc = "config"
    /\ status = "alive"
    /\ IF ~ConfigArgsOk(config_range)
       THEN /\ cfg_ret' = A_E_BADARGS
            /\ pc' = "cfg_done"
            /\ UNCHANGED <<readVars, wireVars>>
       ELSE \E w \in WriteResults :
               LET command == ConfigCommand(config_range, fast_mode, measure_dbc)
               IN  /\ written' = w
                   /\ lastReq' = command
                   /\ cfgWrites' = cfgWrites + 1
                   /\ unanswered' = unanswered + InFlight(w)
                   /\ UNCHANGED measWrites
                   /\ IF FAILED(SendReq(w))
                      THEN /\ cfg_ret' = A_E_INVAL
                           /\ pc' = "cfg_done"
                           /\ UNCHANGED readVars
                      ELSE /\ ReadEnter(ToUnsigned(CONFIG_ACK_MS * MsTicks), command)
                           /\ pc' = "cfg_read"
                           /\ UNCHANGED <<cfg_ret, oob>>
    /\ UNCHANGED <<running, stopWrites, cfgVars, findVars, dev, closes, ret, status, tret,
                   cfgAcked, outVars>>

\* one pass of splread_read_resp waiting for the acknowledgement
SetConfigRead ==
    /\ pc = "cfg_read"
    /\ status = "alive"
    /\ \E r \in ReadResults(ReadLength(REPORT_LEN, read_bytes), TimeoutMillis(timeout_ns)),
          src \in DeviceReports :
       \E o \in StoreOutcomes(read_bytes, r[1]), lost \in Losses(read_bytes, r[1],
                      ReadPass(read_bytes, elapsed, timeout_ns, r[1], r[2])) :
          LET p == ReadPass(read_bytes, elapsed, timeout_ns, r[1], r[2])
          IN  /\ ReadLocals(r[1], r[2], src, lost)
              /\ IF o = "killed"
                 THEN /\ pc' = "exited"
                      /\ status' = "SIGABRT"
                      /\ UNCHANGED <<cfg_ret, cfgAcked>>
                 ELSE /\ pc' = (IF p.returns THEN "cfg_done" ELSE "cfg_read")
                      /\ cfg_ret' = (IF p.returns THEN ConfigAckRet(p.ret, buf')
                                      ELSE cfg_ret)
                      /\ cfgAcked' = (p.returns /\ ~FAILED(p.ret))
                      /\ UNCHANGED status
    /\ UNCHANGED <<running, stopWrites, cfgVars, findVars, dev, closes, ret, tret,
                   sentVars, outVars>>

\* a main that goes on to measure whatever splread_set_config returned
AfterConfigIgnoresFailure(r) == "send"

\* a main that configures again when splread_set_config failed
AfterConfigRetries(r) == IF FAILED(r) THEN "config" ELSE "send"

\* where main goes on the return of splread_set_config
AfterConfig(r) == IF FAILED(r) THEN "done" ELSE "send"

\* main, on the return of splread_set_config
MainConfigured ==
    /\ pc = "cfg_done"
    /\ status = "alive"
    /\ pc' = AfterConfig(cfg_ret)
    /\ ReadLeave
    /\ buf' = ZeroReport
    /\ UNCHANGED <<running, stopWrites, cfgVars, findVars, dev, closes, ret, status, cfg_ret,
                   tret, wireVars, cfgAcked, outVars>>

(***************************************************************************)
(* The polling loop of main.                                               *)
(***************************************************************************)
\* report[] = { GM1356_COMMAND_CAPTURE }
CaptureCommand ==
    [i \in 1..REPORT_LEN |-> IF i = 1 THEN GM1356_COMMAND_CAPTURE ELSE 0]

\* the timeout_ns parameter main hands to splread_read_resp
MeasureTimeout(ms) == ToUnsigned(ms * MsTicks)

\* range_v = report[2] & 0xf
FlagsRange(flags) == BitAnd(flags, GM1356_FLAGS_RANGE_MASK)
\* flags & GM1356_FAST_MODE
FlagsFast(flags) == BitAnd(flags, GM1356_FAST_MODE) # 0
\* flags & GM1356_MEASURE_DBC
FlagsDbc(flags) == BitAnd(flags, GM1356_MEASURE_DBC) # 0

\* a deci_db read with the two bytes in the other order
DeciDbLittleEndian(report) == (report[2] * 256 + report[1]) % 65536

\* uint16_t deci_db = report[0] << 8 | report[1]
DeciDb(report) == (report[1] * 256 + report[2]) % 65536

\* gm1356_range_str[i]: a read past the last entry of the array is undefined
\* behaviour, which "OUT_OF_BOUNDS" stands for
RangeTableAt(i) ==
    IF i + 1 \in DOMAIN gm1356_range_str THEN gm1356_range_str[i + 1]
    ELSE "OUT_OF_BOUNDS"

\* a range string whose guard lets one value too many through to the table
RangeStrGuardOffByOne(range_v) ==
    IF range_v > GM1356_RANGE_MAX + 1 THEN "UNKNOWN" ELSE RangeTableAt(range_v)

\* range_v > 0x4 ? "UNKNOWN" : gm1356_range_str[range_v]
RangeStr(range_v) ==
    IF range_v > GM1356_RANGE_MAX THEN "UNKNOWN" ELSE RangeTableAt(range_v)

\* the locals main decodes from a report and the fields it prints; measured
\* is kept as 100 times the number printed, (double)deci_db/10.0
Decode(report) ==
    LET deci_db == DeciDb(report)
        flags == report[3]
        range_v == FlagsRange(report[3])
    IN  [deci_db |-> deci_db,
         measured_x100 |-> deci_db * 10,
         mode |-> IF FlagsFast(flags) THEN "fast" ELSE "slow",
         freqMode |-> IF FlagsDbc(flags) THEN "dBC" ELSE "dBA",
         range |-> RangeStr(range_v)]

\* the capture command is sent
MainSend ==
    /\ pc = "send"
    /\ status = "alive"
    /\ measWrites < MaxCycles
    /\ \E w \in WriteResults :
          /\ written' = w
          /\ lastReq' = CaptureCommand
          /\ measWrites' = measWrites + 1
          /\ unanswered' = unanswered + InFlight(w)
          /\ UNCHANGED cfgWrites
          /\ IF FAILED(SendReq(w))
             THEN /\ pc' = "done"
                  /\ UNCHANGED readVars
             ELSE /\ ReadEnter(MeasureTimeout(interval_ms), CaptureCommand)
                  /\ pc' = "read"
                  /\ UNCHANGED oob
    /\ UNCHANGED <<running, stopWrites, cfgVars, findVars, dev, closes, ret, status, cfg_ret,
                   tret, cfgAcked, outVars>>

\* one pass of splread_read_resp waiting for the measurement
MainRead ==
    /\ pc = "read"
    /\ status = "alive"
    /\ \E r \in ReadResults(ReadLength(REPORT_LEN, read_bytes), TimeoutMillis(timeout_ns)),
          src \in DeviceReports :
       \E o \in StoreOutcomes(read_bytes, r[1]), lost \in Losses(read_bytes, r[1],
                      ReadPass(read_bytes, elapsed, timeout_ns, r[1], r[2])) :
          LET p == ReadPass(read_bytes, elapsed, timeout_ns, r[1], r[2])
          IN  /\ ReadLocals(r[1], r[2], src, lost)
              /\ IF o = "killed"
                 THEN /\ pc' = "exited"
                      /\ status' = "SIGABRT"
                      /\ UNCHANGED tret
                 ELSE /\ pc' = (IF p.returns THEN "resp" ELSE "read")
                      /\ tret' = (IF p.returns THEN p.ret ELSE tret)
                      /\ UNCHANGED status
    /\ UNCHANGED <<running, stopWrites, cfgVars, findVars, dev, closes, ret, cfg_ret,
                   sentVars, cfgAcked, outVars>>

\* a main that sleeps after a timeout as it does after a measurement
AfterRespTimeoutSleeps(t) ==
    IF FAILED(t)
    THEN IF A_E_TIMEOUT # t THEN "done" ELSE "sleep"
    ELSE "sleep"

\* a main for which a timeout is as fatal as any other failure
AfterRespTimeoutFatal(t) == IF FAILED(t) THEN "done" ELSE "sleep"

\* where main goes on the return of splread_read_resp: to done, to the
\* loop's condition (continue), or on to print and sleep
AfterResp(t) ==
    IF FAILED(t)
    THEN IF A_E_TIMEOUT # t THEN "done" ELSE "while"
    ELSE "sleep"

\* main, on the return of splread_read_resp: abort, go round again, or print
MainResp ==
    /\ pc = "resp"
    /\ status = "alive"
    /\ pc' = AfterResp(tret)
    /\ IF FAILED(tret)
       THEN UNCHANGED outVars
       ELSE /\ emitted' = emitted + 1
            /\ lastEmit' = Decode(buf)
    /\ ReadLeave
    /\ buf' = (IF AfterResp(tret) = "while" THEN ZeroReport ELSE buf)
    /\ tret' = (IF AfterResp(tret) = "while" THEN A_OK ELSE tret)
    /\ UNCHANGED <<running, stopWrites, cfgVars, findVars, dev, closes, ret, status, cfg_ret,
                   wireVars, cfgAcked>>

\* usleep(interval_ms * 1000ul), the end of the loop's body
MainSleep ==
    /\ pc = "sleep"
    /\ status = "alive"
    /\ pc' = "while"
    /\ buf' = ZeroReport
    /\ tret' = A_OK
    /\ UNCHANGED <<running, stopWrites, cfgVars, findVars, dev, closes, ret, status, cfg_ret,
                   read_bytes, elapsed, timeout_ns, nreads, oob, wireVars, cfgAcked,
                   outVars>>

\* a loop whose condition does not look at running
MainWhileIgnoresStop ==
    /\ pc = "while"
    /\ status = "alive"
    /\ pc' = "send"
    /\ UNCHANGED <<running, stopWrites, cfgVars, findVars, dev, closes, ret, status, cfg_ret,
                   tret, readVars, wireVars, cfgAcked, outVars>>

\* while (true == running); ret = EXIT_SUCCESS once the loop is left
MainWhile ==
    /\ pc = "while"
    /\ status = "alive"
    /\ IF running = TRUE
       THEN /\ pc' = "send"
            /\ UNCHANGED ret
       ELSE /\ pc' = "done"
            /\ ret' = "EXIT_SUCCESS"
    /\ UNCHANGED <<running, stopWrites, cfgVars, findVars, dev, closes, status, cfg_ret,
                   tret, readVars, wireVars, cfgAcked, outVars>>

\* done: if (NULL != dev) hid_close(dev)
MainDone ==
    /\ pc = "done"
    /\ status = "alive"
    /\ IF dev # NULL
       THEN /\ dev' = "closed"
            /\ closes' = closes + 1
       ELSE UNCHANGED <<dev, closes>>
    /\ pc' = "return"
    /\ UNCHANGED <<running, stopWrites, cfgVars, findVars, ret, status, cfg_ret, tret, readVars,
                   wireVars, cfgAcked, outVars>>

\* return ret
MainReturn ==
    /\ pc = "return"
    /\ status = "alive"
    /\ status' = ret
    /\ pc' = "exited"
    /\ UNCHANGED <<running, stopWrites, cfgVars, findVars, dev, closes, ret, cfg_ret, tret,
                   readVars, wireVars, cfgAcked, outVars>>

(***************************************************************************)
(* The program.                                                            *)
(***************************************************************************)
Next ==
    \/ SigintHandler
    \/ ParseArgs
    \/ MainEnumerate
    \/ MainFindDevice
    \/ SetConfigSend
    \/ SetConfigRead
    \/ MainConfigured
    \/ MainSend
    \/ MainRead
    \/ MainResp
    \/ MainSleep
    \/ MainWhile
    \/ MainDone
    \/ MainReturn

Spec == Init /\ [][Next]_vars

\* the steps of main: everything but the arrival of a signal
MainNext ==
    \/ ParseArgs
    \/ MainEnumerate
    \/ MainFindDevice
    \/ SetConfigSend
    \/ SetConfigRead
    \/ MainConfigured
    \/ MainSend
    \/ MainRead
    \/ MainResp
    \/ MainSleep
    \/ MainWhile
    \/ MainDone
    \/ MainReturn

\* main is one thread that is always scheduled again, and hid_enumerate,
\* hid_open, hid_write, hid_read_timeout and usleep all return: a step of main
\* that stays possible is taken
SpecLive == Spec /\ WF_vars(MainNext)

(***************************************************************************)
(* splread_set_config on its own: called on an open device with any        *)
(* range in 0..MaxRangeArg and any fast and dbc, which config_range,       *)
(* fast_mode and measure_dbc stand for.                                    *)
(***************************************************************************)
InitCfg ==
    /\ pc = "config"
    /\ running = TRUE
    /\ stopWrites = NoStop
    /\ fast_mode \in BOOLEAN
    /\ measure_dbc \in BOOLEAN
    /\ config_range \in 0..MaxRangeArg
    /\ interval_ms = DEFAULT_INTERVAL_MS
    /\ config_serial = NULL
    /\ opt_C = FALSE
    /\ find_serial = NULL
    /\ attached = <<>>
    /\ devLen \in DeviceReportLens
    /\ find_ret = A_OK
    /\ find_calls = <<>>
    /\ dev = "open"
    /\ closes = 0
    /\ ret = "EXIT_FAILURE"
    /\ status = "alive"
    /\ cfg_ret = A_OK
    /\ tret = A_OK
    /\ buf = ZeroReport
    /\ read_bytes = 0
    /\ elapsed = 0
    /\ timeout_ns = 0
    /\ nreads = 0
    /\ written = 0
    /\ lastReq = <<>>
    /\ cfgWrites = 0
    /\ measWrites = 0
    /\ unanswered = 0
    /\ cfgAcked = FALSE
    /\ emitted = 0
    /\ lastEmit = NoEmit
    /\ oob = FALSE

NextCfg ==
    \/ SetConfigSend
    \/ SetConfigRead

SpecCfg == InitCfg /\ [][NextCfg]_vars

(***************************************************************************)
(* splread_find_device on its own: called with no serial or with any       *)
(* serial, whatever is attached.                                           *)
(***************************************************************************)
\* the call with any serial argument
FindEnumerate == \E serial \in Serials \cup {NULL} : Enumerate(serial)

NextFind ==
    \/ FindEnumerate
    \/ MainFindDevice

\* main has parsed a command line without options
InitFind ==
    /\ pc = "find"
    /\ running = TRUE
    /\ stopWrites = NoStop
    /\ fast_mode = DEFAULT_FAST_MODE
    /\ measure_dbc = DEFAULT_MEASURE_DBC
    /\ config_range = DEFAULT_CONFIG_RANGE
    /\ interval_ms = DEFAULT_INTERVAL_MS
    /\ config_serial = NULL
    /\ opt_C = FALSE
    /\ find_serial = NULL
    /\ attached = <<>>
    /\ devLen = 0
    /\ find_ret = A_OK
    /\ find_calls = <<>>
    /\ dev = NULL
    /\ closes = 0
    /\ ret = "EXIT_FAILURE"
    /\ status = "alive"
    /\ cfg_ret = A_OK
    /\ tret = A_OK
    /\ buf = ZeroReport
    /\ read_bytes = 0
    /\ elapsed = 0
    /\ timeout_ns = 0
    /\ nreads = 0
    /\ written = 0
    /\ lastReq = <<>>
    /\ cfgWrites = 0
    /\ measWrites = 0
    /\ unanswered = 0
    /\ cfgAcked = FALSE
    /\ emitted = 0
    /\ lastEmit = NoEmit
    /\ oob = FALSE

SpecFind == InitFind /\ [][NextFind]_vars

(***************************************************************************)
(* The decoding of a measurement on its own: splread_read_resp has just    *)
(* returned A_OK to the loop of main with any report out of DecodeReports  *)
(* in report[].                                                            *)
(***************************************************************************)
\* the two bytes of the level, the bytes after the flags
LevelBytes == {0, 31, 64, 255}
TailBytes == {0, 255}
DecodeReports ==
    {<<b0, b1, b2, t, t, t, t, t>> :
        b0 \in LevelBytes, b1 \in LevelBytes, b2 \in 0..255, t \in TailBytes}

InitDecode ==
    /\ pc = "resp"
    /\ running = TRUE
    /\ stopWrites = NoStop
    /\ fast_mode = DEFAULT_FAST_MODE
    /\ measure_dbc = DEFAULT_MEASURE_DBC
    /\ config_range = DEFAULT_CONFIG_RANGE
    /\ interval_ms = DEFAULT_INTERVAL_MS
    /\ config_serial = NULL
    /\ opt_C = FALSE
    /\ find_serial = NULL
    /\ attached = <<>>
    /\ devLen = REPORT_LEN
    /\ find_ret = A_OK
    /\ find_calls = <<>>
    /\ dev = "open"
    /\ closes = 0
    /\ ret = "EXIT_FAILURE"
    /\ status = "alive"
    /\ cfg_ret = A_OK
    /\ tret = A_OK
    /\ buf \in DecodeReports
    /\ read_bytes = REPORT_LEN
    /\ elapsed = CallOverhead
    /\ timeout_ns = MeasureTimeout(DEFAULT_INTERVAL_MS)
    /\ nreads = 1
    /\ written = REPORT_LEN
    /\ lastReq = CaptureCommand
    /\ cfgWrites = 1
    /\ measWrites = 1
    /\ unanswered = 0
    /\ cfgAcked = TRUE
    /\ emitted = 0
    /\ lastEmit = NoEmit
    /\ oob = FALSE

NextDecode ==
    \/ MainResp
    \/ MainSleep

SpecDecode == InitDecode /\ [][NextDecode]_vars

(***************************************************************************)
(* Properties.                                                             *)
(***************************************************************************)
\* bit n of x is set
Bit(x, n) == (x \div (2^n)) % 2 = 1

\* the process has ended
Exited == status # "alive"

\* a step of the signal handler: it clears running, or exits from a state
\* where main does not return
SignalStep ==
    \/ running' # running
    \/ (running = FALSE /\ status = "alive" /\ status' = "EXIT_FAILURE" /\ pc # "return")

\* a step of main
MainStep == pc' # pc /\ ~SignalStep

\* C1: no MEASURE request is written before a CONFIGURE request has been
\* written and splread_read_resp has returned success for its
\* acknowledgement; when the configure step fails no MEASURE request is sent.
C1_ConfigureBeforeMeasure ==
    /\ (measWrites > 0 \/ pc \in {"send", "read", "resp", "sleep", "while"})
          => (cfgWrites = 1 /\ cfgAcked /\ cfg_ret = A_OK)
    /\ (lastReq # <<>> /\ lastReq[1] = GM1356_COMMAND_CAPTURE) => cfgAcked
    /\ FAILED(cfg_ret) => (measWrites = 0 /\ (lastReq = <<>> \/ lastReq[1] # GM1356_COMMAND_CAPTURE))

\* a MEASURE request has been written, after an acknowledged CONFIGURE
C1_Witness ==
    /\ measWrites >= 1
    /\ lastReq[1] = GM1356_COMMAND_CAPTURE
    /\ cfgAcked

\* C2 (as claimed): once the handle has been opened it is closed exactly once
\* before the process exits, on every exit path, the exit taken from the
\* signal handler included.
C2_ClosedOnceOnEveryExit ==
    /\ closes <= 1
    /\ (Exited /\ dev # NULL) => (dev = "closed" /\ closes = 1)

\* C3: splread_set_config called with a range greater than 4 returns the
\* bad-arguments error, and then nothing is written to the device and no
\* read is attempted.
C3_BadRangeRejected ==
    (config_range > 4 /\ pc # "config")
        => /\ pc = "cfg_done"
           /\ cfg_ret = A_E_BADARGS
           /\ cfgWrites = 0
           /\ lastReq = <<>>
           /\ nreads = 0

\* splread_set_config has returned for a range greater than 4
C3_Witness ==
    /\ config_range > 4
    /\ pc = "cfg_done"
    /\ cfg_ret = A_E_BADARGS

\* the acknowledgement wait ended with the device never having answered
NoAckTimeout ==
    /\ pc = "cfg_done"
    /\ nreads >= 1
    /\ read_bytes = 0
    /\ elapsed > timeout_ns

\* C4: when the device never answers the CONFIGURE request, configure fails
\* after a single wait of 500 ms; the CONFIGURE request is written exactly
\* once in the session, never again, and the session ends as a failure.
C4_NoAckIsFatal ==
    /\ cfgWrites <= 1
    /\ NoAckTimeout
          => /\ nreads = 1
             /\ timeout_ns = CONFIG_ACK_MS * MsTicks
             /\ elapsed <= timeout_ns + CallOverhead
             /\ FAILED(cfg_ret)
             /\ cfgWrites = 1
    /\ FAILED(cfg_ret)
          => /\ pc \in {"cfg_done", "done", "return", "exited"}
             /\ measWrites = 0
             /\ ret = "EXIT_FAILURE"
             /\ Exited => status = "EXIT_FAILURE"

\* configure has failed on a device that did not answer within one wait
C4_Witness ==
    /\ NoAckTimeout
    /\ nreads = 1
    /\ cfgWrites = 1
    /\ cfg_ret = A_E_INVAL

\* C5: when the receive of a MEASURE cycle ends in Timeout, main emits
\* nothing for the cycle, does not end the session and keeps the handle open,
\* and unless the stop flag is set it goes on to send another MEASURE request.
C5_TimeoutIsNotFatal ==
    [][ /\ (pc = "resp" /\ tret = A_E_TIMEOUT /\ MainStep)
            => /\ pc' = "while"
               /\ emitted' = emitted
               /\ dev' = "open"
               /\ status' = "alive"
               /\ ret' = "EXIT_FAILURE"
        /\ (pc = "while" /\ running = TRUE /\ MainStep) => pc' = "send"
        /\ (pc = "send" /\ MainStep)
            => /\ measWrites' = measWrites + 1
               /\ lastReq' = CaptureCommand
               /\ dev' = "open"
      ]_vars

\* a third MEASURE request is sent after two cycles that both timed out
C5_Witness ==
    /\ pc = "read"
    /\ measWrites = 3
    /\ emitted = 0
    /\ dev = "open"

\* a send or a receive of the polling loop has failed, and not by a timeout
LoopFault ==
    /\ measWrites >= 1
    /\ \/ FAILED(SendReq(written))
       \/ (FAILED(tret) /\ tret # A_E_TIMEOUT)

\* C6 (as claimed): after a failure of send or receive in the polling loop
\* other than Timeout no request is written and nothing is emitted any more,
\* the handle is closed and the process ends with a failure status; it ends
\* with a success status only when the loop was left on the stop flag.
C6_LoopFaultIsFatal ==
    /\ LoopFault
          => /\ pc \in {"resp", "done", "return", "exited"}
             /\ Exited => (status = "EXIT_FAILURE" /\ dev = "closed" /\ closes = 1)
    /\ (status = "EXIT_SUCCESS" /\ dev # NULL) => (running = FALSE /\ ~LoopFault)

\* C7: whenever hid_write returns a count other than 8 the enclosing
\* operation fails with the write error and no read is attempted for the
\* request.
C7_ShortWriteFails ==
    /\ pc \in {"cfg_read", "read", "resp"} => written = REPORT_LEN
    /\ nreads > 0 => written = REPORT_LEN
    /\ (cfgWrites + measWrites > 0 /\ written # REPORT_LEN)
          => /\ pc \in {"cfg_done", "done", "return", "exited"}
             /\ nreads = 0
             /\ read_bytes = 0
             /\ measWrites = 0 => cfg_ret = A_E_INVAL
             /\ ret = "EXIT_FAILURE"

\* a MEASURE request was written short and main is on its way out
C7_Witness ==
    /\ measWrites >= 1
    /\ written = 4
    /\ pc = "done"
    /\ nreads = 0

\* C8: for every range in 0..4 and every fast and dBC the CONFIGURE report
\* written is 0x56, range | (0x40 if fast) | (0x10 if dBC), then six zeros;
\* range 2, fast, dBA gives 0x56 0x42 0 0 0 0 0 0.
C8_ConfigureReport ==
    cfgWrites = 1
        => /\ config_range \in 0..4
           /\ lastReq = << 86,
                           config_range + (IF fast_mode THEN 64 ELSE 0)
                                        + (IF measure_dbc THEN 16 ELSE 0),
                           0, 0, 0, 0, 0, 0 >>
           /\ (config_range = 2 /\ fast_mode /\ ~measure_dbc)
                 => lastReq = <<86, 66, 0, 0, 0, 0, 0, 0>>

\* the report for range 2, fast, dBA has been written
C8_Witness ==
    /\ cfgWrites = 1
    /\ config_range = 2
    /\ fast_mode
    /\ ~measure_dbc
    /\ lastReq[2] = 66

\* C9 (as claimed): byte 1 of the CONFIGURE report carries fast mode in
\* bit 4 and dBC weighting in bit 5, with the range in bits 0..3.
C9_FlagsInBits4And5 ==
    cfgWrites = 1
        => /\ Bit(lastReq[2], 4) = fast_mode
           /\ Bit(lastReq[2], 5) = measure_dbc
           /\ lastReq[2] % 16 = config_range

\* C9 (amended): byte 1 of the CONFIGURE report carries fast mode in bit 6
\* (0x40) and dBC weighting in bit 4 (0x10, clear for dBA); bits 5 and 7 are
\* clear and the range is in bits 0..3, of which bit 3 is clear.
C9_FlagsInBits6And4 ==
    cfgWrites = 1
        => /\ Bit(lastReq[2], 6) = fast_mode
           /\ Bit(lastReq[2], 4) = measure_dbc
           /\ ~Bit(lastReq[2], 5)
           /\ ~Bit(lastReq[2], 7)
           /\ ~Bit(lastReq[2], 3)
           /\ lastReq[2] % 8 = config_range

\* a report with fast mode and dBC weighting has been written
C9_Witness ==
    /\ cfgWrites = 1
    /\ fast_mode
    /\ measure_dbc
    /\ config_range = 4
    /\ Bit(lastReq[2], 6)
    /\ Bit(lastReq[2], 4)

\* C10: for every valid range, fast and dBC, decoding byte 1 of the CONFIGURE
\* report with the masks main uses for the flags byte of a response (the low
\* four bits, 0x40, 0x10) gives back the range, fast and dBC it was built from.
C10_ConfigureRoundTrip ==
    cfgWrites = 1
        => /\ FlagsRange(lastReq[2]) = config_range
           /\ FlagsFast(lastReq[2]) = fast_mode
           /\ FlagsDbc(lastReq[2]) = measure_dbc

\* a report for slow mode, dBC and the largest range has been written
C10_Witness ==
    /\ cfgWrites = 1
    /\ config_range = 4
    /\ ~fast_mode
    /\ measure_dbc
    /\ FlagsRange(lastReq[2]) = 4

(***************************************************************************)
(* The decoding of a measurement (SpecDecode, and main in Spec).           *)
(***************************************************************************)
\* main has printed the report that is still in report[]
Printed == pc = "sleep" /\ emitted > 0

\* the name the protocol gives to the value of the four range bits
RangeNameOf(v) ==
    CASE v = 0 -> "30-130"
      [] v = 1 -> "30-80"
      [] v = 2 -> "50-100"
      [] v = 3 -> "60-110"
      [] v = 4 -> "80-130"
      [] OTHER -> "UNKNOWN"

\* C11: whatever the low four bits of byte 2 of the response are, the range
\* printed is the name of the values 0..4 and "UNKNOWN" for the values 5..15,
\* and the table of the five names is never read past its last entry.
C11_RangeDecodingTotal ==
    Printed =>
        /\ lastEmit.range = RangeNameOf(buf[3] % 16)
        /\ lastEmit.range # "OUT_OF_BOUNDS"
        /\ (buf[3] % 16 > 4 <=> lastEmit.range = "UNKNOWN")

\* a report with the range bits 15 and the three flag bits set was printed
C11_Witness ==
    /\ Printed
    /\ buf[3] = 127
    /\ lastEmit.range = "UNKNOWN"

\* the hold-max flag of a printed measurement: main prints no such field
HoldMaxOf(e) == IF "holdMax" \in DOMAIN e THEN e.holdMax ELSE FALSE

\* C12: for every 8-byte response, the level decoded is 256 * byte 0 + byte 1,
\* fast mode is bit 6 of byte 2, hold-max is bit 5 of byte 2, the weighting
\* is dBC when bit 4 of byte 2 is set and dBA otherwise, and bytes 3..7 have
\* no influence on what is decoded.
C12_DecodeFields ==
    Printed =>
        /\ lastEmit.deci_db = 256 * buf[1] + buf[2]
        /\ (lastEmit.mode = "fast") = Bit(buf[3], 6)
        /\ HoldMaxOf(lastEmit) = Bit(buf[3], 5)
        /\ lastEmit.freqMode = (IF Bit(buf[3], 4) THEN "dBC" ELSE "dBA")
        /\ lastEmit = Decode([i \in 1..REPORT_LEN |-> IF i <= 3 THEN buf[i] ELSE 0])

\* C13 as the spec words it: the response 1F 40 52 00 00 00 00 00 decodes to
\* the level 8000, fast mode, no hold-max, the weighting dBA and the range
\* 50-100.
C13_VectorDbA ==
    (Printed /\ buf = <<31, 64, 82, 0, 0, 0, 0, 0>>) =>
        /\ lastEmit.deci_db = 8000
        /\ lastEmit.mode = "fast"
        /\ ~HoldMaxOf(lastEmit)
        /\ lastEmit.freqMode = "dBA"
        /\ lastEmit.range = "50-100"

\* C13: the response 1F 40 52 00 00 00 00 00 decodes to the level 8000, fast
\* mode, no hold-max, the weighting dBC (bit 4 of 0x52 is set) and the range
\* 50-100.
C13_VectorDbC ==
    (Printed /\ buf = <<31, 64, 82, 0, 0, 0, 0, 0>>) =>
        /\ lastEmit.deci_db = 8000
        /\ lastEmit.mode = "fast"
        /\ ~HoldMaxOf(lastEmit)
        /\ lastEmit.freqMode = "dBC"
        /\ lastEmit.range = "50-100"

\* the response 1F 40 52 00 00 00 00 00 was printed
C13_Witness ==
    /\ Printed
    /\ buf = <<31, 64, 82, 0, 0, 0, 0, 0>>
    /\ lastEmit.range = "50-100"

(***************************************************************************)
(* Discovery (SpecFind, and main in Spec).                                 *)
(***************************************************************************)
\* the devices of the enumeration that are candidates for the serial asked for
Candidates(devs, serial) ==
    {i \in DOMAIN devs : serial = NULL \/ devs[i] = serial}

\* splread_find_device returns
FindReturns == pc = "found" /\ pc' # "found" /\ ~SignalStep

C15_SerialFilterUsed ==
    [][(FindReturns /\ config_serial # NULL /\ Len(attached) = 2
        /\ Cardinality(Candidates(attached, config_serial)) = 1)
       => find_ret' \in {A_OK, A_E_NOTFOUND}]_vars

(***************************************************************************)
(* What is printed and what is configured (Spec).                          *)
(***************************************************************************)
\* C17: the measured value printed is the level in hundredths of a decibel
\* divided by 100: 100 times the number printed is 256 * byte 0 + byte 1.
C17_MeasuredIsHundredths ==
    Printed => lastEmit.measured_x100 = 256 * buf[1] + buf[2]

\* C18: the weighting bit 0x10 of byte 1 of the CONFIGURE report is set only
\* when -C was given, and is clear (dBA) when it was not.
C18_WeightingFollowsOption ==
    (lastReq # <<>>) =>
        (lastReq[1] = GM1356_COMMAND_CONFIGURE => (Bit(lastReq[2], 4) <=> opt_C))

(***************************************************************************)
(* What splread_read_resp returns to the loop of main (Spec).              *)
(***************************************************************************)
\* splread_read_resp has returned to the loop and main has not looked yet
RespReturned == pc = "resp" /\ status = "alive"

\* C19 as the spec words it: the receive returns A_E_TIMEOUT only with fewer
\* than 8 bytes accumulated; once the 8th byte is accumulated it returns
\* success.
C19_TimeoutOnlyWhenShort ==
    RespReturned => (tret = A_E_TIMEOUT => read_bytes < REPORT_LEN)

\* C19: the receive returns A_E_TIMEOUT exactly when the clock read after a
\* hid_read_timeout shows the deadline passed, whether or not that read
\* completed the 8 bytes; it returns success exactly when the 8th byte is
\* accumulated by a read that ends within the deadline.
C19_TimeoutWhenDeadlinePassed ==
    RespReturned =>
        /\ (tret = A_E_TIMEOUT <=> elapsed > timeout_ns)
        /\ (tret = A_OK <=> (read_bytes = REPORT_LEN /\ elapsed <= timeout_ns))

\* the read that completed the 8 bytes ended after the deadline: A_E_TIMEOUT
C19_Witness ==
    /\ RespReturned
    /\ tret = A_E_TIMEOUT
    /\ read_bytes = REPORT_LEN
    /\ nreads = 2

\* every byte of the report comes out of a report of the device
FromDevice(report) ==
    \A i \in 1..REPORT_LEN : \E r \in DeviceReports : \E j \in DOMAIN r : report[i] = r[j]

\* C20: the receive never yields a partial report: when it returns success
\* exactly 8 bytes were accumulated from the device, and when it returns
\* A_E_TIMEOUT or a read error main decodes and prints nothing of the buffer;
\* a measurement is printed only from such a complete report.
C20_NoPartialReport ==
    [][/\ (RespReturned' /\ tret' = A_OK)
            => (read_bytes' = REPORT_LEN /\ FromDevice(buf') /\ nreads' >= 1)
       /\ (RespReturned /\ FAILED(tret)) => UNCHANGED outVars
       /\ (emitted' # emitted \/ lastEmit' # lastEmit)
            => (/\ RespReturned
                /\ tret = A_OK
                /\ read_bytes = REPORT_LEN
                /\ emitted' = emitted + 1
                /\ lastEmit' = Decode(buf))]_vars

\* a report put together from two reads of 4 bytes was printed
C20_Witness ==
    /\ Printed
    /\ devLen = 4
    /\ buf = <<31, 64, 82, 0, 196, 1, 23, 9>>
    /\ lastEmit.deci_db = 8000

StopSteps ==
    \* the signal that sets the flag aborts nothing: main stays where it is
    /\ (running /\ ~running')
          => (pc' = pc /\ status' = "alive" /\ dev' = dev /\ tret' = tret
              /\ UNCHANGED <<readVars, wireVars, outVars>>)
    \* the flag is looked at only between two cycles, and there it ends the
    \* loop with ret = EXIT_SUCCESS
    /\ (pc = "while" /\ ~running /\ MainStep)
          => (pc' = "done" /\ ret' = "EXIT_SUCCESS")
    /\ (pc \in {"send", "read", "resp", "sleep"} /\ MainStep)
          => ret' = ret
    \* main closes the handle and returns ret
    /\ (pc = "done" /\ ret = "EXIT_SUCCESS" /\ MainStep)
          => (dev = "open" /\ dev' = "closed" /\ closes' = closes + 1
              /\ pc' = "return")
    /\ (pc = "return" /\ pc' = "exited")
          => (status' = ret \/ (~running /\ status' = "EXIT_FAILURE"))

ReadReturned == RespReturned \/ (pc = "cfg_done" /\ status = "alive" /\ nreads >= 1)

\* C21: every receive returns within its timeout: the time from the entry
\* to splread_read_resp to its return is at most timeout_ns, plus one
\* reading of the clock for each hid_read_timeout it made, whatever the
\* pattern of partial reads.
C21_ReturnsWithinTimeout ==
    ReadReturned => elapsed <= timeout_ns + nreads * CallOverhead

\* C22: the timeout the receive of a MEASURE works with is interval_ms times
\* 1,000,000 ns, not wrapped and not truncated.
C22_TimeoutIsIntervalTimesMillion ==
    (pc \in {"read", "resp"} /\ status = "alive")
        => timeout_ns = interval_ms * MsTicks

\* C23 as the spec words it: between two MEASURE requests the loop sleeps
\* one interval, also after a cycle that timed out: the loop's condition is
\* only come to from the sleep.
C23_SleepsBetweenRequests ==
    [][/\ (measWrites' # measWrites) => (pc = "send" /\ pc' \in {"read", "done"})
       /\ (MainStep /\ pc' = "send") => pc \in {"cfg_done", "while"}
       /\ (MainStep /\ pc' = "while") => pc = "sleep"]_vars

\* C23: between two MEASURE requests the loop sleeps one interval when the
\* earlier cycle printed a measurement; after a cycle that timed out it goes
\* straight to the loop's condition (continue) and, still running, sends
\* the next request without sleeping.
C23_SleepsAfterMeasurementOnly ==
    [][/\ (measWrites' # measWrites) => (pc = "send" /\ pc' \in {"read", "done"})
       /\ (MainStep /\ pc' = "send") => pc \in {"cfg_done", "while"}
       /\ (MainStep /\ pc' = "while")
             => (pc = "sleep" \/ (pc = "resp" /\ tret = A_E_TIMEOUT))
       /\ (MainStep /\ pc = "resp" /\ tret = A_E_TIMEOUT) => pc' = "while"
       /\ (MainStep /\ pc = "resp" /\ tret = A_OK) => pc' = "sleep"
       /\ (MainStep /\ pc' = "sleep") => (pc = "resp" /\ tret = A_OK)]_vars

\* the first cycle timed out and the second request is about to be sent,
\* nothing having been printed and so no sleep having been made
C23_Witness ==
    /\ pc = "send"
    /\ measWrites = 1
    /\ emitted = 0
    /\ cfgAcked

(***************************************************************************)
(* Discovery: a failed open, and the enumeration (SpecFind).               *)
(***************************************************************************)
\* hid_open was called and failed
OpenFails ==
    /\ FindReturns
    /\ Cardinality(Candidates(attached, find_serial)) = 1
    /\ dev' = NULL

\* C25 as the spec words it: when the only candidate cannot be opened,
\* discovery returns a NULL handle and an outcome that is none of those it
\* has for no matching device.
C25_OpenFailedIsDistinct ==
    [][OpenFails =>
        /\ FAILED(find_ret')
        /\ find_ret' \notin {A_E_NOTFOUND, A_E_EMPTY}
        /\ dev' = NULL]_vars

\* C25: when the only candidate cannot be opened, discovery returns a NULL
\* handle and A_E_NOTFOUND, which is also what it returns when hid_enumerate
\* finds no device; only the outcome for devices that are attached but do
\* not have the serial asked for, A_E_EMPTY, is a different one.
C25_OpenFailedIsNotFound ==
    [][/\ OpenFails => (find_ret' = A_E_NOTFOUND /\ dev' = NULL)
       /\ (FindReturns /\ attached = <<>>) => find_ret' = A_E_NOTFOUND
       /\ (FindReturns /\ attached # <<>>
           /\ Candidates(attached, find_serial) = {}) => find_ret' = A_E_EMPTY]_vars

\* the only device with the serial "A" could not be opened
C25_Witness ==
    /\ find_serial = "A"
    /\ pc = "done"
    /\ find_ret = A_E_NOTFOUND
    /\ dev = NULL
    /\ find_calls = <<"hid_enumerate", "walk", "hid_open", "hid_free_enumeration">>

\* the places of a call in what splread_find_device did
CallsOf(name, calls) == {i \in DOMAIN calls : calls[i] = name}

\* C26: when hid_enumerate returned an enumeration, splread_find_device frees
\* it exactly once before it returns, whatever the outcome (success, no
\* candidate, several candidates, a failed open), and the free comes after
\* every use of the enumeration; nothing of it is left to the caller.
C26_EnumerationFreedOnce ==
    [][FindReturns =>
        LET freed == CallsOf("hid_free_enumeration", find_calls')
        IN  /\ Cardinality(freed) = (IF attached # <<>> THEN 1 ELSE 0)
            /\ \A i \in freed : i = Len(find_calls')
            /\ \A i \in CallsOf("walk", find_calls') \cup CallsOf("hid_open", find_calls') :
                  \A j \in freed : i < j
            /\ attached' = <<>>]_vars

\* two devices were enumerated, which is one too many, and the enumeration
\* was freed
C26_Witness ==
    /\ find_serial = NULL
    /\ find_ret = A_E_INVAL
    /\ find_calls = <<"hid_enumerate", "walk", "hid_free_enumeration">>
    /\ attached = <<>>

DeviceIo ==
    \/ cfgWrites' # cfgWrites
    \/ measWrites' # measWrites
    \/ nreads' > nreads

\* C28: there is never more than one handle open: the one handle is opened
\* once, by discovery, and closed at most once; and every write and every
\* read of a CONFIGURE, a MEASURE or their responses is made on the open
\* handle, none before it is opened and none after it is closed.
C28_IoOnlyOnTheOpenHandle ==
    [][/\ DeviceIo => (dev = "open" /\ dev' = "open")
       /\ (dev' = "open" /\ dev # "open") => (dev = NULL /\ pc = "found")
       /\ (dev = "closed") => (dev' = "closed" /\ closes' = closes)
       /\ (dev' = "closed" /\ dev # "closed") => (dev = "open" /\ closes' = 1)
       /\ (pc' \in {"cfg_read", "read"}) => dev' = "open"]_vars

\* the handle was closed after a CONFIGURE, a MEASURE and two reads of the
\* measurement were made on it
C28_Witness ==
    /\ dev = "closed"
    /\ closes = 1
    /\ cfgWrites = 1
    /\ measWrites = 1
    /\ emitted = 1
    /\ devLen = 4

\* C29: every hid_read_timeout is asked for no more bytes than are free in
\* the 8-byte buffer, so that the bytes accumulated never exceed 8 and no
\* byte is stored past the end of the buffer.
C29_NeverPastTheBuffer ==
    /\ read_bytes <= REPORT_LEN
    /\ ~oob

(***************************************************************************)
(* The requests written after the stop flag is set (Spec).                 *)
(***************************************************************************)
\* the requests written since running was cleared
CfgAfterStop == cfgWrites - stopWrites.cfg
MeasAfterStop == measWrites - stopWrites.meas

\* C30 as the spec words it: once the stop flag is set at most one more
\* MEASURE request is written, whenever the signal came, and no CONFIGURE
\* request at all.
C30_NoConfigureAfterStop ==
    ~running => (MeasAfterStop <= 1 /\ CfgAfterStop = 0)

\* C30: once the stop flag is set at most one more MEASURE request is
\* written, whenever the signal came; a CONFIGURE request is written after
\* it only when the signal came before the configuration was sent, and then
\* once.
C30_OneMoreMeasureAtMost ==
    ~running =>
        /\ MeasAfterStop <= 1
        /\ CfgAfterStop <= 1
        /\ (CfgAfterStop = 1 => (stopWrites.cfg = 0 /\ stopWrites.meas = 0))

\* the signal came before the configuration: the CONFIGURE and one MEASURE
\* were written after it, and the loop was then left
C30_Witness ==
    /\ ~running
    /\ stopWrites = [cfg |-> 0, meas |-> 0]
    /\ cfgWrites = 1
    /\ measWrites = 1
    /\ pc = "done"
    /\ ret = "EXIT_SUCCESS"

(***************************************************************************)
(* Requests and their answers (Spec).                                      *)
(***************************************************************************)
\* C24 as the spec words it: there are never two unanswered requests in
\* flight, and a measurement printed in a cycle is the answer to the MEASURE
\* request of that cycle, also after a cycle that timed out.
C24_OneRequestInFlight ==
    /\ unanswered <= 1
    /\ Printed => unanswered = 0

\* the requests written that were neither acknowledged nor answered by a
\* measurement that was printed
NotAnswered ==
    (cfgWrites - (IF cfgAcked THEN 1 ELSE 0)) + (measWrites - emitted)

\* C24: a request is written only when no receive is under way and is
\* followed by one receive before the next request; the requests still in
\* flight are at most the current one and one for each cycle that timed
\* out; the measurement printed in a cycle is the first report read in that
\* cycle, which is the answer to the cycle's own request when no earlier
\* cycle timed out.
C24_RequestThenReceive ==
    [][/\ (cfgWrites' # cfgWrites \/ measWrites' # measWrites)
             => /\ nreads = 0 /\ read_bytes = 0
                /\ pc \in {"config", "send"}
                /\ (written' = REPORT_LEN => (pc' \in {"cfg_read", "read"} /\ nreads' = 0))
       /\ unanswered' >= 0
       /\ unanswered' <= NotAnswered'
       /\ (Printed' /\ emitted' = measWrites') => unanswered' = 0]_vars

\* the first cycle timed out with its request unanswered, the second request
\* was written, and a report was printed in the second cycle with one
\* request still unanswered: the report is the answer to the first request
C24_Witness ==
    /\ Printed
    /\ measWrites = 2
    /\ emitted = 1
    /\ unanswered = 1

=========================================================================
